---------------------------- MODULE Spec2Model ----------------------------
(***************************************************************************)
(* Model of rpi_plc/plc.py: the dual-state MemoryVariable and the scan     *)
(* engine AbstractPLC.run() with its registries, I/O bindings, stop flag,  *)
(* emergency branch and communication-error handler.                       *)
(*                                                                         *)
(* The configured application is a small one: a digital input (registered *)
(* normally open or normally closed), a digital output, a PWM output and   *)
(* one step marker.  The three user routines (control_routine,             *)
(* exit_routine, emergency_routine) are abstract in the source; they are   *)
(* modelled as an arbitrary bounded sequence of calls of the API the       *)
(* engine offers them (MemoryVariable.update on output and step entries,   *)
(* di_read, do_write / pwm_write).  control_routine ends by returning, by  *)
(* raising EmergencyException or by raising another exception, that of an  *)
(* accessor included; exit_routine and emergency_routine return (their     *)
(* contract: they bring the plant to rest and raise nothing).              *)
(*                                                                         *)
(* Every binding read and write may raise InternalCommunicationError, and  *)
(* the notifier's send may raise.  The stop signal may arrive between any  *)
(* two steps of the run, or before it.                                     *)
(*                                                                         *)
(* Spec is the run from the end of construction on; MVSpec is the          *)
(* MemoryVariable API called in any order; LiveSpec is the failure-free    *)
(* run with fairness; BootSpec starts inside __init__, where the signal    *)
(* handler is installed before the flag is initialised.                    *)
(***************************************************************************)
EXTENDS Integers, Sequences, FiniteSets, TLC

\* ------------------------------------------------------------- bounds
\* scan cycles the loop may start
MaxCycles == 2
\* API calls the user routines may make in one run, all routines together
MaxOps == 2
\* largest value user code hands to a PWM output (duty levels 0..MaxDuty)
MaxDuty == 1

\* ------------------------------------------------------ configuration
\* self._inputs, in registration (dict insertion) order
InputOrder == <<"start">>
\* self._outputs, in registration (dict insertion) order
OutputOrder == <<"valve", "fan">>
InNames == {InputOrder[i] : i \in 1..Len(InputOrder)}
OutNames == {OutputOrder[i] : i \in 1..Len(OutputOrder)}
StepNames == {"step0"}
\* outputs registered with add_pwm_output
PwmOutputs == {"fan"}

Bits == {0, 1}
DutyLevels == 0..MaxDuty

\* f"{label}_status"
StatusName(o) == IF o = "valve" THEN "valve_status" ELSE "fan_status"
StatusNames == {StatusName(o) : o \in OutNames}

\* a faulty iteration that visits the outputs last-registered first
OutputPosReversed(o) ==
    CHOOSE i \in 1..Len(OutputOrder) : OutputOrder[Len(OutputOrder) + 1 - i] = o

\* position of a binding in the iteration order of its dictionary
InputPos(n) == CHOOSE i \in 1..Len(InputOrder) : InputOrder[i] = n
OutputPos(o) == CHOOSE i \in 1..Len(OutputOrder) : OutputOrder[i] = o
NumIn == Len(InputOrder)
NumOut == Len(OutputOrder)

\* values user code may hand to update / do_write / pwm_write for an output
OutValues(o) == IF o \in PwmOutputs THEN DutyLevels ELSE Bits

\* ----------------------------------------------------- MemoryVariable
MemoryVariable(curr, prev, bit) ==
    [curr_state |-> curr, prev_state |-> prev, single_bit |-> bit]

\* a faulty update that forgets to save the preceding state
update_keeps_prev(mv, value) == [mv EXCEPT !.curr_state = value]

\* MemoryVariable.update
update(mv, value) ==
    [mv EXCEPT !.prev_state = mv.curr_state, !.curr_state = value]

\* Python truthiness of a stored number
Truthy(x) == x # 0

\* MemoryVariable.active
active(mv) == Truthy(mv.curr_state)

\* a faulty raising_edge that reports the level of the current state
raising_edge_level(mv) ==
    IF mv.single_bit THEN Truthy(mv.curr_state) ELSE "ValueError"

\* MemoryVariable.raising_edge; "ValueError" when the variable is not single bit
raising_edge(mv) ==
    IF mv.single_bit
    THEN Truthy(mv.curr_state) /\ ~Truthy(mv.prev_state)
    ELSE "ValueError"

\* MemoryVariable.falling_edge; "ValueError" when the variable is not single bit
falling_edge(mv) ==
    IF mv.single_bit
    THEN Truthy(mv.prev_state) /\ ~Truthy(mv.curr_state)
    ELSE "ValueError"

\* the result of a call that may raise ValueError: whether it raised, and
\* the variable as the call leaves it
Result(raised, mv) == [raised |-> raised, var |-> mv]

\* a faulty activate without the single-bit test
activate_unchecked(mv) == Result(FALSE, update(mv, 1))

\* MemoryVariable.activate
activate(mv) ==
    IF mv.single_bit THEN Result(FALSE, update(mv, 1)) ELSE Result(TRUE, mv)

\* MemoryVariable.deactivate
deactivate(mv) ==
    IF mv.single_bit THEN Result(FALSE, update(mv, 0)) ELSE Result(TRUE, mv)

\* a faulty update_registries that re-stamps with the previous state
update_registry_prev(reg) ==
    [x \in DOMAIN reg |-> update(reg[x], reg[x].prev_state)]

\* update_registries on one registry: every entry is updated with its own
\* current state
update_registry(reg) ==
    [x \in DOMAIN reg |-> update(reg[x], reg[x].curr_state)]

\* ------------------------------------------------------------- state
VARIABLES
    exit,             \* self._exit
    NC_contact,       \* the inputs registered with NC_contact = True
    eml_notification, \* whether an e-mail notifier is configured
    input_registry,   \* self.input_registry
    output_registry,  \* self.output_registry
    step_registry,    \* self.step_registry
    hw,               \* per output: the value its binding last had written
    pc,               \* position of run()
    pending,          \* how the try statement completes once finally is done
    outcome,          \* how run() ended
    ops,              \* API calls made by the user routines so far
    \* ---- observation of the run (history, not read by the engine)
    cycle,            \* scan cycles started
    phases,           \* phases of the current cycle that have run, in order
    calls,            \* invocations of control / exit / emergency routine
    outAfter,         \* output phases run since the last routine invocation
    handled,          \* int_com_error_handler: errors logged, notifier sends
    inFail,           \* input phase of this cycle: reads called, failing position
    outFail,          \* a write of an output phase has failed
    wcount,           \* per output: writes in the latest output phase
    sample,           \* per input: value its binding returned in this cycle
    lastSample,       \* per input: value returned in the cycle before, or -1
    cycleStart,       \* per output / step: current value when the cycle began
                      \* (kept until control_routine ends)
    updCount,         \* per output / step: updates by control_routine so far
                      \* in its current invocation
    emLast,           \* per output: last value emergency_routine gave it
                      \* (registry update or direct write), or -1
    emReg,            \* per output: last value emergency_routine gave its
                      \* output-registry entry, or -1
    stopCycle,        \* cycle in or after which the stop signal first arrived,
                      \* or -1
    stopMid,          \* the stop signal first arrived inside a scan cycle
    lastCall          \* the operation that has just executed

sig == <<exit, stopCycle, stopMid>>
conf == <<NC_contact, eml_notification>>
prog == <<conf, input_registry, output_registry, step_registry, hw>>
ctrl == <<pc, pending, outcome, ops>>
hist == <<cycle, phases, calls, outAfter, handled, inFail, outFail, wcount,
          sample, lastSample, cycleStart, updCount, emLast, emReg>>
vars == <<sig, prog, ctrl, hist, lastCall>>

UserPcs == {"control_routine", "exit_routine", "emergency_routine"}
\* positions of run() inside the body of the while loop
InCyclePcs == {"update_registries", "read_inputs", "control_routine",
               "emergency_routine", "finally"}
TrackedVars == OutNames \cup StepNames

Call(op, name, value, old) ==
    [op |-> op, name |-> name, value |-> value, old |-> old]

\* the registry entry of an output or a step marker
Entry(x) == IF x \in OutNames THEN output_registry[x] ELSE step_registry[x]

\* ------------------------------------------------------- registration
\* a faulty registration that starts every input at 0
InputInitValueAlwaysZero(n) == 0

\* add_digital_input: init_value from NC_contact
InputInitValue(n) == IF n \in NC_contact THEN 1 ELSE 0

\* init_value of add_digital_output / add_pwm_output / add_step (the defaults)
OutputInitValue(o) == 0
StepInitValue(s) == 0

\* input_registry after the registrations: inputs and the status of outputs
InitInputRegistry ==
    [n \in InNames \cup StatusNames |->
        IF n \in InNames
        THEN MemoryVariable(InputInitValue(n), InputInitValue(n), TRUE)
        ELSE MemoryVariable(0, 0, n # StatusName("fan"))]

\* output_registry after the registrations
InitOutputRegistry ==
    [o \in OutNames |->
        MemoryVariable(OutputInitValue(o), OutputInitValue(o), o \notin PwmOutputs)]

\* step_registry after the registrations
InitStepRegistry ==
    [s \in StepNames |-> MemoryVariable(StepInitValue(s), StepInitValue(s), TRUE)]

\* ---------------------------------------------------------------- Init
\* __init__ followed by the registrations, run() about to be called
Init ==
    /\ exit = FALSE
    /\ NC_contact \in SUBSET InNames
    /\ eml_notification \in BOOLEAN
    /\ input_registry = InitInputRegistry
    /\ output_registry = InitOutputRegistry
    /\ step_registry = InitStepRegistry
    /\ hw = [o \in OutNames |-> OutputInitValue(o)]
    /\ pc = "loop"
    /\ pending = "none"
    /\ outcome = "running"
    /\ ops = 0
    /\ cycle = 0
    /\ phases = <<>>
    /\ calls = [control |-> 0, exit |-> 0, emergency |-> 0]
    /\ outAfter = 0
    /\ handled = [logged |-> 0, notified |-> 0]
    /\ inFail = [reads |-> 0, at |-> 0]
    /\ outFail = FALSE
    /\ wcount = [o \in OutNames |-> 0]
    /\ sample = [n \in InNames |-> -1]
    /\ lastSample = [n \in InNames |-> -1]
    /\ cycleStart = [x \in TrackedVars |-> 0]
    /\ updCount = [x \in TrackedVars |-> 0]
    /\ emLast = [o \in OutNames |-> -1]
    /\ emReg = [o \in OutNames |-> -1]
    /\ stopCycle = -1
    /\ stopMid = FALSE
    /\ lastCall = Call("init", "-", 0, 0)

\* ------------------------------------------------------- stop signal
\* a faulty handler that ends the scan at once and enters exit_routine
exit_handler_interrupts ==
    /\ pc \notin {"done", "exit_routine", "flush"}
    /\ exit' = TRUE
    /\ stopCycle' = IF exit THEN stopCycle ELSE cycle
    /\ stopMid' = IF exit THEN stopMid ELSE pc \in InCyclePcs
    /\ pc' = "exit_routine"
    /\ calls' = [calls EXCEPT !.exit = @ + 1]
    /\ outAfter' = 0
    /\ UNCHANGED <<prog, pending, outcome, ops, cycle, phases, handled, inFail,
                   outFail, wcount, sample, lastSample, cycleStart, updCount,
                   emLast, emReg, lastCall>>

\* exit_handler, run by the SIGTSTP handler at any moment of the run
exit_handler ==
    /\ pc # "done"
    /\ exit' = TRUE
    /\ stopCycle' = IF exit THEN stopCycle ELSE cycle
    /\ stopMid' = IF exit THEN stopMid ELSE pc \in InCyclePcs
    /\ UNCHANGED <<prog, ctrl, hist, lastCall>>

\* ----------------------------------------------------------- run()
\* a faulty loop whose try block starts with read_inputs
LoopHeadSkipsAdvance ==
    /\ pc = "loop"
    /\ IF exit
       THEN /\ pc' = "exit_routine"
            /\ calls' = [calls EXCEPT !.exit = @ + 1]
            /\ outAfter' = 0
            /\ UNCHANGED <<cycle, phases, inFail>>
       ELSE /\ cycle < MaxCycles
            /\ pc' = "read_inputs"
            /\ cycle' = cycle + 1
            /\ phases' = <<>>
            /\ inFail' = [reads |-> 0, at |-> 0]
            /\ UNCHANGED <<calls, outAfter>>
    /\ lastCall' = Call("loop", "-", 0, 0)
    /\ UNCHANGED <<sig, prog, pending, outcome, ops, handled,
                   outFail, wcount, sample, lastSample, cycleStart, updCount,
                   emLast, emReg>>

\* a faulty loop test that never sees the flag (`while True`)
StopNeverSeen == FALSE

\* run: the flag as the test of `while not self._exit` reads it
StopRequested == exit

\* run: the test of `while not self._exit`, and the else branch's call of
\* exit_routine when the flag is set
LoopHead ==
    /\ pc = "loop"
    /\ IF StopRequested
       THEN /\ pc' = "exit_routine"
            /\ calls' = [calls EXCEPT !.exit = @ + 1]
            /\ outAfter' = 0
            /\ UNCHANGED <<cycle, phases, inFail>>
       ELSE /\ cycle < MaxCycles
            /\ pc' = "update_registries"
            /\ cycle' = cycle + 1
            /\ phases' = <<>>
            /\ inFail' = [reads |-> 0, at |-> 0]
            /\ UNCHANGED <<calls, outAfter>>
    /\ lastCall' = Call("loop", "-", 0, 0)
    /\ UNCHANGED <<sig, prog, pending, outcome, ops, handled,
                   outFail, wcount, sample, lastSample, cycleStart, updCount,
                   emLast, emReg>>

\* a faulty update_registries that leaves the registries as they are
UpdateRegistriesNoStamp ==
    /\ pc = "update_registries"
    /\ cycleStart' =
         [x \in TrackedVars |->
            IF x \in OutNames THEN output_registry[x].curr_state
                              ELSE step_registry[x].curr_state]
    /\ phases' = Append(phases, "advance")
    /\ pc' = "read_inputs"
    /\ lastCall' = Call("update_registries", "-", 0, 0)
    /\ UNCHANGED <<sig, prog, pending, outcome, ops, cycle, calls, outAfter,
                   handled, inFail, outFail, wcount, sample, lastSample,
                   updCount, emLast, emReg>>

\* update_registries, called first in the try block
UpdateRegistries ==
    /\ pc = "update_registries"
    /\ step_registry' = update_registry(step_registry)
    /\ output_registry' = update_registry(output_registry)
    /\ cycleStart' =
         [x \in TrackedVars |->
            IF x \in OutNames THEN output_registry[x].curr_state
                              ELSE step_registry[x].curr_state]
    /\ phases' = Append(phases, "advance")
    /\ pc' = "read_inputs"
    /\ lastCall' = Call("update_registries", "-", 0, 0)
    /\ UNCHANGED <<sig, conf, input_registry, hw,
                   pending, outcome, ops, cycle, calls, outAfter, handled,
                   inFail, outFail, wcount, sample, lastSample, updCount,
                   emLast, emReg>>

\* int_com_error_handler: the counts of messages logged and notifier sends
HandlerCounts(h) ==
    [logged |-> h.logged + 1,
     notified |-> h.notified + (IF eml_notification THEN 1 ELSE 0)]

\* a faulty handler that returns instead of calling sys.exit
HandlerReturns(sendOK) == "none"

\* how a call of the notifier's send may end: it returns (TRUE) or it
\* raises (FALSE); notification is best-effort and may fail
SendOutcomes == BOOLEAN

\* int_com_error_handler: the exception that leaves it; sys.exit raises
\* SystemExit unless the notifier's send has raised before
HandlerRaises(sendOK) ==
    IF eml_notification /\ ~sendOK THEN "raised" ELSE "SystemExit"

\* the read-back an output binding's read() returns: the value last written
OutputRead(o) == hw[o]

\* read_inputs with the values the input bindings return; failAt = 0 when
\* every read succeeds, else the position (inputs first, then outputs) of
\* the read that raises InternalCommunicationError
ReadInputs(failAt, vals, sendOK) ==
    LET didIn(n) == failAt = 0 \/ InputPos(n) < failAt
        didOut(o) == failAt = 0 \/ NumIn + OutputPos(o) < failAt
        statusOf(n) == CHOOSE o \in OutNames : StatusName(o) = n
    IN
    /\ pc = "read_inputs"
    /\ input_registry' =
         [n \in DOMAIN input_registry |->
            IF n \in InNames
            THEN IF didIn(n) THEN update(input_registry[n], vals[n])
                             ELSE input_registry[n]
            ELSE IF didOut(statusOf(n))
                 THEN update(input_registry[n], OutputRead(statusOf(n)))
                 ELSE input_registry[n]]
    /\ sample' = [n \in InNames |-> IF didIn(n) THEN vals[n] ELSE sample[n]]
    /\ lastSample' = [n \in InNames |-> IF didIn(n) THEN sample[n] ELSE lastSample[n]]
    /\ inFail' = [reads |-> Cardinality({n \in InNames : didIn(n)})
                             + Cardinality({o \in OutNames : didOut(o)})
                             + (IF failAt = 0 THEN 0 ELSE 1),
                  at |-> failAt]
    /\ phases' = Append(phases, "input")
    /\ IF failAt = 0
       THEN /\ pc' = "control_routine"
            /\ calls' = [calls EXCEPT !.control = @ + 1]
            /\ outAfter' = 0
            /\ UNCHANGED <<pending, handled>>
       ELSE /\ handled' = HandlerCounts(handled)
            /\ pending' = HandlerRaises(sendOK)
            /\ pc' = "finally"
            /\ UNCHANGED <<calls, outAfter>>
    /\ lastCall' = Call("read_inputs", "-", failAt, 0)
    /\ UNCHANGED <<sig, conf, output_registry,
                   step_registry, hw, outcome, ops, cycle, outFail, wcount,
                   cycleStart, updCount, emLast, emReg>>

\* ------------------------------------------------- the user routines
\* control_routine / exit_routine / emergency_routine calling
\* MemoryVariable.update on the output-registry entry of output o
UserUpdateOutput(o, v) ==
    /\ pc \in UserPcs
    /\ ops < MaxOps
    /\ output_registry' = [output_registry EXCEPT ![o] = update(@, v)]
    /\ ops' = ops + 1
    /\ updCount' = IF pc = "control_routine"
                   THEN [updCount EXCEPT ![o] = @ + 1] ELSE updCount
    /\ emLast' = IF pc = "emergency_routine"
                 THEN [emLast EXCEPT ![o] = v] ELSE emLast
    /\ emReg' = IF pc = "emergency_routine"
                THEN [emReg EXCEPT ![o] = v] ELSE emReg
    /\ lastCall' = Call("update", o, v, output_registry[o].curr_state)
    /\ UNCHANGED <<sig, conf, input_registry,
                   step_registry, hw, pc, pending, outcome, cycle, phases,
                   calls, outAfter, handled, inFail, outFail, wcount, sample,
                   lastSample, cycleStart>>

\* a user routine calling MemoryVariable.update on step marker s
UserUpdateStep(s, v) ==
    /\ pc \in UserPcs
    /\ ops < MaxOps
    /\ step_registry' = [step_registry EXCEPT ![s] = update(@, v)]
    /\ ops' = ops + 1
    /\ updCount' = IF pc = "control_routine"
                   THEN [updCount EXCEPT ![s] = @ + 1] ELSE updCount
    /\ lastCall' = Call("update", s, v, step_registry[s].curr_state)
    /\ UNCHANGED <<sig, conf, input_registry,
                   output_registry, hw, pc, pending, outcome, cycle, phases,
                   calls, outAfter, handled, inFail, outFail, wcount, sample,
                   lastSample, cycleStart, emLast, emReg>>

\* a label no binding has been registered under
NoLabel == "nolabel"

\* a faulty lookup that takes every label for a registered one
BoundAlways(label, table) == TRUE

\* self._inputs.get(label) / self._outputs.get(label) finds a binding
Bound(label, table) == label \in table

\* a user routine ends by an exception that an accessor called in it has
\* raised; only control_routine may (exit_routine and emergency_routine
\* raise nothing)
AccessorRaises(exc) ==
    /\ pc = "control_routine"
    /\ pc' = "finally"
    /\ pending' = exc
    /\ phases' = Append(phases, "control")
    /\ cycleStart' = [x \in TrackedVars |-> 0]
    /\ updCount' = [x \in TrackedVars |-> 0]

\* di_read(label), called by a user routine: one read of the binding, whose
\* value goes to the caller; ConfigurationError when the label is not bound;
\* ok = FALSE when the binding's read raises InternalCommunicationError
di_read(n, ok) ==
    /\ pc \in UserPcs
    /\ ops < MaxOps
    /\ ops' = ops + 1
    /\ lastCall' = Call("di_read", n, IF Bound(n, InNames) THEN 1 ELSE 0, 0)
    /\ IF Bound(n, InNames) /\ ok
       THEN UNCHANGED <<pc, pending, phases, cycleStart, updCount>>
       ELSE AccessorRaises(IF Bound(n, InNames)
                           THEN "InternalCommunicationError"
                           ELSE "ConfigurationError")
    /\ UNCHANGED <<sig, prog, outcome, cycle, calls, outAfter, handled, inFail,
                   outFail, wcount, sample, lastSample, emLast, emReg>>

\* do_write / pwm_write(label, value), called by a user routine: the value
\* goes to the binding, no registry is touched; ConfigurationError when the
\* label is not bound; ok = FALSE when the binding's write raises
\* InternalCommunicationError
do_write(o, v, ok) ==
    /\ pc \in UserPcs
    /\ ops < MaxOps
    /\ ops' = ops + 1
    /\ lastCall' = Call("do_write", o, v, IF o \in OutNames THEN hw[o] ELSE 0)
    /\ IF Bound(o, OutNames) /\ ok
       THEN /\ hw' = [x \in OutNames |-> IF x = o THEN v ELSE hw[x]]
            /\ emLast' = IF pc = "emergency_routine"
                         THEN [x \in OutNames |-> IF x = o THEN v ELSE emLast[x]]
                         ELSE emLast
            /\ UNCHANGED <<pc, pending, phases, cycleStart, updCount>>
       ELSE /\ AccessorRaises(IF Bound(o, OutNames)
                              THEN "InternalCommunicationError"
                              ELSE "ConfigurationError")
            /\ UNCHANGED <<hw, emLast>>
    /\ UNCHANGED <<sig, conf, input_registry,
                   output_registry, step_registry, outcome,
                   cycle, calls, outAfter, handled, inFail, outFail,
                   wcount, sample, lastSample, emReg>>

\* a faulty except clause that catches every exception
CaughtAny(how) == how # "return"

\* run: `except EmergencyException` catches the way control_routine ended
Caught(how) == how = "emergency"

\* how control_routine ends: "return", "emergency" (EmergencyException) or
\* "error" (any other exception); run's try statement decides what follows
ControlEnds(how) ==
    /\ pc = "control_routine"
    /\ phases' = Append(phases, "control")
    /\ IF Caught(how)
       THEN /\ pc' = "emergency_routine"
            /\ calls' = [calls EXCEPT !.emergency = @ + 1]
            /\ outAfter' = 0
            /\ UNCHANGED pending
       ELSE /\ pc' = "finally"
            /\ pending' = IF how = "error" THEN "raised" ELSE "none"
            /\ UNCHANGED <<calls, outAfter>>
    /\ cycleStart' = [x \in TrackedVars |-> 0]
    /\ updCount' = [x \in TrackedVars |-> 0]
    /\ lastCall' = Call("control_routine", how, 0, 0)
    /\ UNCHANGED <<sig, prog, outcome, ops, cycle, handled,
                   inFail, outFail, wcount, sample, lastSample, emLast, emReg>>

\* a faulty except clause without its `return`: the loop goes on
EmergencyReturnsNoReturn ==
    /\ pc = "emergency_routine"
    /\ pc' = "finally"
    /\ pending' = "none"
    /\ lastCall' = Call("emergency_routine", "-", 0, 0)
    /\ UNCHANGED <<sig, prog, outcome, ops, hist>>

\* a faulty run without the finally clause: `return` ends run() at once
EmergencyReturnsNoFlush ==
    /\ pc = "emergency_routine"
    /\ pc' = "done"
    /\ outcome' = "returned"
    /\ lastCall' = Call("emergency_routine", "-", 0, 0)
    /\ UNCHANGED <<sig, prog, pending, ops, hist>>

\* emergency_routine returns; the except clause executes `return`, which
\* the finally clause precedes
EmergencyReturns ==
    /\ pc = "emergency_routine"
    /\ pc' = "finally"
    /\ pending' = "return"
    /\ lastCall' = Call("emergency_routine", "-", 0, 0)
    /\ UNCHANGED <<sig, prog, outcome, ops, hist>>

\* a faulty else branch that ends after exit_routine, without write_outputs
ExitReturnsNoFlush ==
    /\ pc = "exit_routine"
    /\ pc' = "done"
    /\ outcome' = "returned"
    /\ lastCall' = Call("exit_routine", "-", 0, 0)
    /\ UNCHANGED <<sig, prog, pending, ops, hist>>

\* exit_routine returns; the else branch goes on to write_outputs
ExitReturns ==
    /\ pc = "exit_routine"
    /\ pc' = "flush"
    /\ lastCall' = Call("exit_routine", "-", 0, 0)
    /\ UNCHANGED <<sig, prog, pending, outcome, ops, hist>>

\* --------------------------------------------------------- output phase
\* a faulty write that sends the previous state of the registry entry
OutputValuePrev(o) == output_registry[o].prev_state

\* write_outputs: the value handed to the binding of output o
OutputValue(o) == output_registry[o].curr_state

\* write_outputs, in the finally clause (pc = "finally") or after
\* exit_routine (pc = "flush"); failAt = 0 when every write succeeds, else
\* the position of the write that raises InternalCommunicationError
WriteOutputs(failAt, sendOK) ==
    LET did(o) == failAt = 0 \/ OutputPos(o) < failAt
        after == IF pc = "flush" THEN "return" ELSE pending
    IN
    /\ pc \in {"finally", "flush"}
    /\ hw' = [o \in OutNames |-> IF did(o) THEN OutputValue(o) ELSE hw[o]]
    /\ wcount' = [o \in OutNames |-> IF did(o) THEN 1 ELSE 0]
    /\ outAfter' = outAfter + 1
    /\ phases' = IF pc = "finally" THEN Append(phases, "output") ELSE phases
    /\ pending' = "none"
    /\ IF failAt = 0
       THEN /\ pc' = IF after = "none" THEN "loop" ELSE "done"
            /\ outcome' = CASE after = "none" -> outcome
                             [] after = "return" -> "returned"
                             [] OTHER -> after
            /\ UNCHANGED <<handled, outFail>>
       ELSE /\ handled' = HandlerCounts(handled)
            /\ outFail' = TRUE
            /\ pc' = "done"
            /\ outcome' = HandlerRaises(sendOK)
    /\ lastCall' = Call("write_outputs", "-", failAt, 0)
    /\ UNCHANGED <<sig, conf, input_registry,
                   output_registry, step_registry, ops, cycle, calls, inFail,
                   sample, lastSample, cycleStart, updCount, emLast, emReg>>

\* ---------------------------------------------------------------- Next
Next ==
    \/ exit_handler
    \/ LoopHead
    \/ UpdateRegistries
    \/ \E failAt \in 0..(NumIn + NumOut), vals \in [InNames -> Bits], sendOK \in SendOutcomes :
          ReadInputs(failAt, vals, sendOK)
    \/ \E o \in OutNames : \E v \in OutValues(o) : UserUpdateOutput(o, v)
    \/ \E s \in StepNames, v \in Bits : UserUpdateStep(s, v)
    \/ \E n \in InNames \cup {NoLabel}, ok \in BOOLEAN : di_read(n, ok)
    \/ \E o \in OutNames \cup {NoLabel}, ok \in BOOLEAN :
          \E v \in OutValues(o) : do_write(o, v, ok)
    \/ \E how \in {"return", "emergency", "error"} : ControlEnds(how)
    \/ EmergencyReturns
    \/ ExitReturns
    \/ \E failAt \in 0..NumOut, sendOK \in SendOutcomes : WriteOutputs(failAt, sendOK)

Spec == Init /\ [][Next]_vars

\* =====================================================================
\* The MemoryVariable API on its own: application code calling update,
\* activate, deactivate on the registered output and step variables, and
\* update_registries, in any order and any number of times.  `pending` holds
\* the exception the latest call has raised.
\* =====================================================================
\* values application code hands to MemoryVariable.update
MVValues == 0..(MaxDuty + 1)

MVInit == Init /\ NC_contact = {} /\ eml_notification = FALSE

\* the registries with entry x replaced by mv
SetEntry(x, mv) ==
    /\ output_registry' = IF x \in OutNames
                          THEN [output_registry EXCEPT ![x] = mv]
                          ELSE output_registry
    /\ step_registry' = IF x \in StepNames
                        THEN [step_registry EXCEPT ![x] = mv]
                        ELSE step_registry

\* MemoryVariable.update(value) on entry x
MVUpdate(x, v) ==
    /\ SetEntry(x, update(Entry(x), v))
    /\ pending' = "none"
    /\ lastCall' = Call("update", x, v, Entry(x).curr_state)
    /\ UNCHANGED <<sig, conf, input_registry, hw, pc, outcome, ops, hist>>

\* MemoryVariable.activate() on entry x
MVActivate(x) ==
    LET r == activate(Entry(x)) IN
    /\ SetEntry(x, r.var)
    /\ pending' = IF r.raised THEN "ValueError" ELSE "none"
    /\ lastCall' = Call("activate", x, 1, Entry(x).curr_state)
    /\ UNCHANGED <<sig, conf, input_registry, hw, pc, outcome, ops, hist>>

\* MemoryVariable.deactivate() on entry x
MVDeactivate(x) ==
    LET r == deactivate(Entry(x)) IN
    /\ SetEntry(x, r.var)
    /\ pending' = IF r.raised THEN "ValueError" ELSE "none"
    /\ lastCall' = Call("deactivate", x, 0, Entry(x).curr_state)
    /\ UNCHANGED <<sig, conf, input_registry, hw, pc, outcome, ops, hist>>

\* update_registries applied to the registries as they are
MVAdvance ==
    /\ step_registry' = update_registry(step_registry)
    /\ output_registry' = update_registry(output_registry)
    /\ pending' = "none"
    /\ lastCall' = Call("update_registries", "-", 0, 0)
    /\ UNCHANGED <<sig, conf, input_registry, hw, pc, outcome, ops, hist>>

MVNext ==
    \/ \E x \in TrackedVars, v \in MVValues : MVUpdate(x, v)
    \/ \E x \in TrackedVars : MVActivate(x)
    \/ \E x \in TrackedVars : MVDeactivate(x)
    \/ MVAdvance

MVSpec == MVInit /\ [][MVNext]_vars

\* =====================================================================
\* The program from the last two statements of __init__ on: the SIGTSTP
\* handler has just been installed (plc.py:173), `self._exit = False`
\* (plc.py:174) and the registrations are still to come, then run().
\* =====================================================================
\* a dictionary of __init__, nothing registered yet
EmptyDict == [n \in {} |-> 0]

\* __init__ after signal.signal(...) has returned; the flag attribute is not
\* assigned yet (FALSE: not set)
BootInit ==
    /\ exit = FALSE
    /\ NC_contact \in SUBSET InNames
    /\ eml_notification \in BOOLEAN
    /\ input_registry = EmptyDict
    /\ output_registry = EmptyDict
    /\ step_registry = EmptyDict
    /\ hw = EmptyDict
    /\ pc = "__init__"
    /\ pending = "none"
    /\ outcome = "running"
    /\ ops = 0
    /\ cycle = 0
    /\ phases = <<>>
    /\ calls = [control |-> 0, exit |-> 0, emergency |-> 0]
    /\ outAfter = 0
    /\ handled = [logged |-> 0, notified |-> 0]
    /\ inFail = [reads |-> 0, at |-> 0]
    /\ outFail = FALSE
    /\ wcount = [o \in OutNames |-> 0]
    /\ sample = [n \in InNames |-> -1]
    /\ lastSample = [n \in InNames |-> -1]
    /\ cycleStart = [x \in TrackedVars |-> 0]
    /\ updCount = [x \in TrackedVars |-> 0]
    /\ emLast = [o \in OutNames |-> -1]
    /\ emReg = [o \in OutNames |-> -1]
    /\ stopCycle = -1
    /\ stopMid = FALSE
    /\ lastCall = Call("__init__", "-", 0, 0)

\* the last statement of __init__, `self._exit = False`, followed by the
\* registrations of the application; run() is about to be called
InitEnds ==
    /\ pc = "__init__"
    /\ exit' = FALSE
    /\ input_registry' = InitInputRegistry
    /\ output_registry' = InitOutputRegistry
    /\ step_registry' = InitStepRegistry
    /\ hw' = [o \in OutNames |-> OutputInitValue(o)]
    /\ pc' = "loop"
    /\ lastCall' = Call("init", "-", 0, 0)
    /\ UNCHANGED <<stopCycle, stopMid, conf, pending, outcome, ops, hist>>

BootNext == InitEnds \/ Next

BootSpec == BootInit /\ [][BootNext]_vars

\* =====================================================================
\* The run in which nothing fails: every binding read and write returns,
\* control_routine and exit_routine return and no EmergencyException is
\* raised.  The interpreter keeps executing the single thread of run(), so
\* every step of the engine that stays possible is eventually taken, and the
\* operator eventually sends the stop signal.
\* =====================================================================
LiveNext ==
    \/ exit_handler
    \/ LoopHead
    \/ UpdateRegistries
    \/ \E vals \in [InNames -> Bits] : ReadInputs(0, vals, TRUE)
    \/ \E o \in OutNames : \E v \in OutValues(o) : UserUpdateOutput(o, v)
    \/ \E s \in StepNames, v \in Bits : UserUpdateStep(s, v)
    \/ \E n \in InNames : di_read(n, TRUE)
    \/ \E o \in OutNames : \E v \in OutValues(o) : do_write(o, v, TRUE)
    \/ ControlEnds("return")
    \/ ExitReturns
    \/ WriteOutputs(0, TRUE)

\* the stop signal is eventually delivered, the engine's own steps are
\* taken, the binding calls and the user routines return
LiveFairness ==
    /\ WF_vars(exit_handler)
    /\ WF_vars(LoopHead)
    /\ WF_vars(UpdateRegistries)
    /\ WF_vars(\E vals \in [InNames -> Bits] : ReadInputs(0, vals, TRUE))
    /\ WF_vars(ControlEnds("return"))
    /\ WF_vars(ExitReturns)
    /\ WF_vars(WriteOutputs(0, TRUE))

LiveSpec == Init /\ [][LiveNext]_vars /\ LiveFairness

\* =====================================================================
\* Properties
\* =====================================================================
FullCycle == <<"advance", "input", "control", "output">>

\* the rank of a phase in the scan order
PhaseRank(ph) ==
    CASE ph = "advance" -> 1 [] ph = "input" -> 2
      [] ph = "control" -> 3 [] ph = "output" -> 4

\* the phases of the current cycle respect the scan order, none repeated,
\* none started before the ones before it have run
PhasesInOrder ==
    /\ \A i, j \in 1..Len(phases) : i < j => PhaseRank(phases[i]) < PhaseRank(phases[j])
    /\ Len(phases) >= 1 => phases[1] = "advance"
    /\ Len(phases) >= 2 => phases[2] = "input"
    /\ pc = "update_registries" => phases = <<>>
    /\ pc = "read_inputs" => phases = <<"advance">>
    /\ pc = "control_routine" => phases = <<"advance", "input">> /\ inFail.at = 0
    /\ pc = "finally" => Len(phases) >= 2 /\ phases[Len(phases)] # "output"
    /\ pc = "loop" /\ cycle > 0 => phases = FullCycle

\* C1: in every scan cycle the phases run in the order advance, input,
\* control, output, each at most once; control_routine is only entered
\* after the advance and input phases of its cycle have completed, and a
\* cycle only starts after the output phase of the cycle before it.
C1_PhaseOrder ==
    [][ /\ PhasesInOrder'
        /\ cycle' # cycle =>
              /\ cycle' = cycle + 1
              /\ cycle > 0 => phases = FullCycle /\ ~outFail
              /\ phases' = <<>> ]_vars

\* two complete cycles have run, the second after the first one's output
C1_Witness ==
    /\ cycle = 2
    /\ pc = "loop"
    /\ phases = FullCycle
    /\ calls.control = 2

C3_EmergencyPath ==
    /\ calls.emergency <= 1
    /\ calls.exit <= 1
    /\ calls.emergency + calls.exit <= 1
    /\ calls.emergency = 1 =>
          /\ pc \in {"emergency_routine", "finally", "done"}
          /\ phases[Len(phases)] \in {"control", "output"}
          /\ pc = "emergency_routine" => outAfter = 0
          /\ pc = "finally" => outAfter = 0 /\ pending = "return"
          /\ pc = "done" => outAfter = 1 /\ calls.exit = 0
          /\ pc = "done" /\ ~outFail => outcome = "returned"

\* the emergency was raised in cycle 2, during which the stop signal had
\* arrived, and run() has returned
C3_Witness ==
    /\ pc = "done"
    /\ calls.emergency = 1
    /\ calls.exit = 0
    /\ cycle = 2
    /\ exit /\ stopCycle = 2 /\ stopMid
    /\ outAfter = 1
    /\ outcome = "returned"

\* what a completed normal stop looks like
StoppedNormally ==
    /\ exit
    /\ calls.exit = 1
    /\ calls.emergency = 0
    /\ cycle = stopCycle
    /\ cycle > 0 => phases = FullCycle
    /\ pc \in {"exit_routine", "flush", "done"}
    /\ pc = "done" => outAfter = 1
    /\ pc = "done" /\ ~outFail => outcome = "returned"

\* C4: the stop signal only sets the flag; the cycle it arrives in runs
\* on through its output phase; the loop head that next sees the flag
\* starts no cycle and calls exit_routine, once, after which the output
\* phase runs once more and run() returns.
C4_StopIsCooperative ==
    [][ /\ exit' # exit => UNCHANGED <<prog, ctrl, hist, lastCall>>
        /\ cycle' # cycle => ~exit
        /\ (pc = "loop" /\ exit /\ pc' # pc) =>
              pc' = "exit_routine" /\ calls'.exit = calls.exit + 1
        /\ calls'.exit >= 1 => StoppedNormally'
        /\ (pc' = "done" /\ outcome' = "returned" /\ calls'.emergency = 0) =>
              StoppedNormally' ]_vars

\* the stop signal arrived inside cycle 2, which ran to its end, and
\* run() has returned through exit_routine and the final flush
C4_Witness ==
    /\ pc = "done"
    /\ outcome = "returned"
    /\ calls.exit = 1
    /\ stopMid /\ stopCycle = 2
    /\ cycle = 2
    /\ calls.control = 2
    /\ phases = FullCycle
    /\ outAfter = 1

\* C5: a read that fails in the input phase is logged, and notified when
\* a notifier is configured; the other reads of the phase and
\* control_routine are skipped, the output phase of the cycle runs, and
\* run() ends with the exception: no further cycle, no exit_routine, no
\* emergency_routine.
C5_ReadFailure ==
    inFail.at > 0 =>
        /\ handled.logged >= 1
        /\ handled.notified = IF eml_notification THEN handled.logged ELSE 0
        /\ inFail.reads = inFail.at
        /\ "control" \notin {phases[i] : i \in 1..Len(phases)}
        /\ calls.control = cycle - 1
        /\ calls.exit = 0 /\ calls.emergency = 0
        /\ pc \in {"finally", "done"}
        /\ pc = "finally" => pending \in {"SystemExit", "raised"}
        /\ pc = "done" =>
              /\ phases = <<"advance", "input", "output">>
              /\ outcome \in {"SystemExit", "raised"}
              /\ ~eml_notification => outcome = "SystemExit"

\* the second read of cycle 2 failed, the notifier was sent the message,
\* the outputs were flushed and the process has exited
C5_Witness ==
    /\ pc = "done"
    /\ inFail.at = 2
    /\ cycle = 2
    /\ eml_notification
    /\ handled = [logged |-> 1, notified |-> 1]
    /\ outcome = "SystemExit"
    /\ wcount = [o \in OutNames |-> 1]

\* C6 as stated: after an emergency exit every output carries the last
\* value emergency_routine gave it, a direct do_write / pwm_write included.
C6_AsStated ==
    (pc = "done" /\ calls.emergency = 1 /\ ~outFail) =>
        \A o \in OutNames : emLast[o] # -1 => hw[o] = emLast[o]

\* C6, amended: after an emergency exit without a write failure every
\* output carries the current value of its output-registry entry as
\* emergency_routine left it, that is the last value emergency_routine
\* gave the entry through update if it gave one; the flush after
\* emergency_routine writes that value over whatever do_write / pwm_write
\* wrote directly.
C6_RegistryWins ==
    (pc = "done" /\ calls.emergency = 1 /\ ~outFail) =>
        \A o \in OutNames :
            /\ hw[o] = output_registry[o].curr_state
            /\ emReg[o] # -1 => hw[o] = emReg[o]

\* emergency_routine wrote 0 to the valve directly, its registry entry
\* held 1, and the flush has put 1 back on the hardware
C6_Witness ==
    /\ pc = "done"
    /\ calls.emergency = 1
    /\ ~outFail
    /\ emLast["valve"] = 0
    /\ emReg["valve"] = -1
    /\ hw["valve"] = 1

\* C7: an output phase that completes has called write once on every
\* bound output with the current value of its output-registry entry,
\* also in a cycle whose input phase failed.
C7_WriteEachOutputOnce ==
    (lastCall.op = "write_outputs" /\ lastCall.value = 0) =>
        \A o \in OutNames :
            /\ wcount[o] = 1
            /\ hw[o] = output_registry[o].curr_state

\* the first read of cycle 2 failed and the output phase of that cycle
\* has written 1 to the valve, which started at 0
C7_Witness ==
    /\ lastCall.op = "write_outputs"
    /\ lastCall.value = 0
    /\ inFail.at = 1
    /\ cycle = 2
    /\ OutputInitValue("valve") = 0
    /\ hw["valve"] = 1
    /\ wcount = [o \in OutNames |-> 1]

\* C8 as stated: during the control phase previous is the value current
\* had when the cycle began, whatever control_routine has done so far.
C8_AsStated ==
    pc = "control_routine" =>
        \A x \in TrackedVars : Entry(x).prev_state = cycleStart[x]

\* C8, amended: during the control phase, previous of an output or step
\* variable is the value current had when the cycle began as long as
\* control_routine has updated the variable at most once in this phase.
C8_PreviousIsCycleStart ==
    pc = "control_routine" =>
        \A x \in TrackedVars :
            /\ updCount[x] <= 1 => Entry(x).prev_state = cycleStart[x]
            /\ updCount[x] = 0 => Entry(x).curr_state = cycleStart[x]

\* in cycle 2 the valve began at 1 and control_routine has set it to 0:
\* previous still shows 1
C8_Witness ==
    /\ pc = "control_routine"
    /\ cycle = 2
    /\ cycleStart["valve"] = 1
    /\ updCount["valve"] = 1
    /\ output_registry["valve"].curr_state = 0
    /\ output_registry["valve"].prev_state = 1

\* C9: in the control phase of cycle n a digital input's entry has
\* current = the value read in cycle n and previous = the value read in
\* cycle n-1, or for n = 1 the registration value (0 normally open, 1
\* normally closed); a normally-open input first read truthy is active
\* with a rising edge in cycle 1.
C9_InputEdges ==
    pc = "control_routine" =>
        \A n \in InNames :
            LET mv == input_registry[n] IN
            /\ mv.curr_state = sample[n]
            /\ (cycle = 1) <=> (lastSample[n] = -1)
            /\ mv.prev_state = IF cycle = 1
                                THEN (IF n \in NC_contact THEN 1 ELSE 0)
                                ELSE lastSample[n]
            /\ (cycle = 1 /\ n \notin NC_contact /\ Truthy(sample[n])) =>
                  active(mv) /\ raising_edge(mv) = TRUE

\* a normally-open input read 1 in the first cycle
C9_Witness ==
    /\ pc = "control_routine"
    /\ cycle = 1
    /\ "start" \notin NC_contact
    /\ sample["start"] = 1
    /\ raising_edge(input_registry["start"]) = TRUE

\* C10: after update(v), previous is the value current had just before
\* the call and current is v, also when v is that value.
C10_Update ==
    lastCall.op = "update" =>
        /\ Entry(lastCall.name).curr_state = lastCall.value
        /\ Entry(lastCall.name).prev_state = lastCall.old

\* the valve went 0 -> 1 and was then updated with 1 again: previous,
\* which was 0, is now 1
C10_Witness ==
    /\ lastCall = Call("update", "valve", 1, 1)
    /\ pc = "control_routine"
    /\ cycleStart["valve"] = 0
    /\ updCount["valve"] = 2
    /\ output_registry["valve"].prev_state = 1

\* ---------------------------------------------------------------------
\* C11: on a single-bit variable, after any call of update, activate or
\* deactivate, raising_edge tells exactly that the latest update moved the
\* value from falsy to truthy and falling_edge exactly that it moved it from
\* truthy to falsy; both are false when the update stored the value that
\* was there, and on no single-bit variable are both true together
C11_EdgesOfLatestUpdate ==
    /\ \A x \in TrackedVars :
          Entry(x).single_bit =>
             ~(raising_edge(Entry(x)) /\ falling_edge(Entry(x)))
    /\ (/\ lastCall.op \in {"update", "activate", "deactivate"}
        /\ pending = "none"
        /\ Entry(lastCall.name).single_bit)
       => LET mv == Entry(lastCall.name)
              was == Truthy(lastCall.old)
              now == Truthy(lastCall.value)
          IN /\ raising_edge(mv) = (~was /\ now)
             /\ falling_edge(mv) = (was /\ ~now)
             /\ lastCall.old = lastCall.value =>
                   (raising_edge(mv) = FALSE /\ falling_edge(mv) = FALSE)

\* activate() has just raised the edge of the step marker, and a
\* deactivate() of the digital output before it left a falling edge there
C11_Witness ==
    /\ lastCall = Call("activate", "step0", 1, 0)
    /\ raising_edge(step_registry["step0"]) = TRUE
    /\ falling_edge(step_registry["step0"]) = FALSE
    /\ falling_edge(output_registry["valve"]) = TRUE

\* ---------------------------------------------------------------------
\* C12: on a variable that is not single bit, raising_edge and falling_edge
\* raise ValueError in every state, and a call of activate or deactivate
\* raises ValueError and leaves the current and the previous state as they
\* were
C12_NotSingleBit ==
    [][\A x \in TrackedVars :
          ~Entry(x).single_bit =>
             /\ raising_edge(Entry(x)) = "ValueError"
             /\ falling_edge(Entry(x)) = "ValueError"
             /\ (lastCall'.op \in {"activate", "deactivate"} /\ lastCall'.name = x)
                => /\ pending' = "ValueError"
                   /\ Entry(x)'.curr_state = Entry(x).curr_state
                   /\ Entry(x)'.prev_state = Entry(x).prev_state
                   /\ raising_edge(Entry(x))' = "ValueError"
                   /\ falling_edge(Entry(x))' = "ValueError"]_vars

\* activate() on the PWM output, holding 2 after 1, has raised and left both
\* states alone
C12_Witness ==
    /\ lastCall = Call("activate", "fan", 1, 2)
    /\ pending = "ValueError"
    /\ output_registry["fan"] = MemoryVariable(2, 1, FALSE)

\* ---------------------------------------------------------------------
\* C13: an application of update_registries leaves the current state of
\* every step and output variable unchanged; after it, and after any
\* further application with no update between, no single-bit step or
\* output variable shows a raising or a falling edge, and applying it once
\* more changes nothing
C13_AdvanceIdempotent ==
    [][lastCall'.op = "update_registries" =>
          /\ \A x \in TrackedVars :
                /\ Entry(x)'.curr_state = Entry(x).curr_state
                /\ Entry(x)'.single_bit =>
                      /\ raising_edge(Entry(x))' = FALSE
                      /\ falling_edge(Entry(x))' = FALSE
          /\ update_registry(output_registry)' = output_registry'
          /\ update_registry(step_registry)' = step_registry']_vars

\* update_registries has just cleared the edges that updates to 1 and 2 had
\* left on the three variables
C13_Witness ==
    /\ lastCall.op = "update_registries"
    /\ step_registry["step0"] = MemoryVariable(1, 1, TRUE)
    /\ output_registry["valve"] = MemoryVariable(2, 2, TRUE)
    /\ output_registry["fan"] = MemoryVariable(2, 2, FALSE)

\* ---------------------------------------------------------------------
\* a step in which a user routine calls di_read, do_write or pwm_write
AccessorStep == ops' = ops + 1 /\ lastCall'.op \in {"di_read", "do_write"}

\* C14: di_read, do_write and pwm_write with a label that is not bound raise
\* ConfigurationError to the caller, reach no binding and change no
\* registry; with a bound label they call that binding once (the write
\* puts the value on that output alone, or the binding raises) and change no
\* registry
C14_Accessors ==
    [][AccessorStep =>
         LET c == lastCall' IN
         /\ UNCHANGED <<input_registry, output_registry, step_registry>>
         /\ c.op = "di_read" =>
               /\ hw' = hw
               /\ IF c.name \in InNames
                  THEN /\ c.value = 1
                       /\ \/ UNCHANGED <<pc, pending>>
                          \/ pending' = "InternalCommunicationError"
                  ELSE /\ c.value = 0
                       /\ pending' = "ConfigurationError"
                       /\ pc' = "finally"
         /\ c.op = "do_write" =>
               IF c.name \in OutNames
               THEN \/ /\ hw' = [hw EXCEPT ![c.name] = c.value]
                       /\ UNCHANGED <<pc, pending>>
                    \/ /\ hw' = hw
                       /\ pending' = "InternalCommunicationError"
               ELSE /\ hw' = hw
                    /\ pending' = "ConfigurationError"
                    /\ pc' = "finally"]_vars

\* control_routine has written 1 to the valve through do_write, with the
\* registry entry left at 0, and then called di_read with an unknown label
C14_Witness ==
    /\ lastCall = Call("di_read", NoLabel, 0, 0)
    /\ pending = "ConfigurationError"
    /\ pc = "finally"
    /\ hw["valve"] = 1
    /\ output_registry["valve"].curr_state = 0

\* ---------------------------------------------------------------------
\* once run() has ended the engine does nothing more
NoStepAfterEnd == pc = "done" => UNCHANGED vars

\* the exceptions, other than EmergencyException, that end control_routine
ControlFailures == {"raised", "ConfigurationError", "InternalCommunicationError"}

\* control_routine ends by an exception that is not EmergencyException
ControlFails ==
    /\ pc = "control_routine"
    /\ pc' # "control_routine"
    /\ lastCall'.name \notin {"return", "emergency"}

\* C15: when control_routine ends by an exception other than
\* EmergencyException (a ConfigurationError or InternalCommunicationError of
\* an accessor included), run does not handle it: no emergency_routine, no
\* exit_routine, no call of int_com_error_handler for it; write_outputs of
\* the finally clause runs once, and unless one of its writes fails run()
\* ends there with that very exception; no step follows the end of run()
C15_ControlFailure ==
    [][/\ ControlFails =>
            /\ pc' = "finally"
            /\ pending' \in ControlFailures
            /\ outAfter' = 0
            /\ UNCHANGED <<calls, handled, cycle, hw>>
       /\ (pc = "finally" /\ pending \in ControlFailures /\ inFail.at = 0) =>
            /\ calls.exit = 0 /\ calls.emergency = 0
            /\ handled.logged = 0 /\ handled.notified = 0
            /\ outAfter = 0
            /\ UNCHANGED <<calls, cycle>>
            /\ \/ pc' = "finally" /\ UNCHANGED <<pending, outAfter, handled, hw>>
               \/ /\ pc' = "done"
                  /\ outAfter' = 1
                  /\ phases' = FullCycle
                  /\ IF outFail'
                     THEN handled'.logged = 1
                     ELSE outcome' = pending /\ handled' = handled
       /\ NoStepAfterEnd]_vars

\* the second cycle's control_routine has called an accessor with an
\* unknown label; run() has ended with the ConfigurationError after one
\* output phase
C15_Witness ==
    /\ pc = "done"
    /\ outcome = "ConfigurationError"
    /\ cycle = 2
    /\ phases = FullCycle
    /\ outAfter = 1
    /\ calls = [control |-> 2, exit |-> 0, emergency |-> 0]
    /\ handled.logged = 0

\* ---------------------------------------------------------------------
\* C16: write_outputs writes the outputs in registration order: when the
\* write of the k-th registered output fails, the outputs registered before
\* it have been written with their registry values and neither it nor any
\* output registered after it is written in that phase;
\* int_com_error_handler logs the error and sends the notification (if a
\* notifier is configured), and run() ends there by the exception the
\* handler raises: no further cycle, no exit_routine or emergency_routine
C16_WriteFailure ==
    [][/\ (outFail' /\ ~outFail) =>
            LET k == lastCall'.value IN
            /\ lastCall'.op = "write_outputs"
            /\ k \in 1..NumOut
            /\ \A i \in 1..NumOut :
                  LET o == OutputOrder[i] IN
                  IF i < k
                  THEN hw'[o] = output_registry[o].curr_state /\ wcount'[o] = 1
                  ELSE hw'[o] = hw[o] /\ wcount'[o] = 0
            /\ handled'.logged = handled.logged + 1
            /\ handled'.notified =
                  handled.notified + (IF eml_notification THEN 1 ELSE 0)
            /\ pc' = "done"
            /\ outcome' \in {"SystemExit", "raised"}
            /\ UNCHANGED <<cycle, calls, input_registry, output_registry,
                           step_registry>>
       /\ outFail => pc = "done"
       /\ NoStepAfterEnd]_vars

\* the write of the second output has failed in the output phase of a
\* cycle: the valve has received its 1, the fan still has 0 although its
\* registry entry holds 1, the notification has been sent
C16_Witness ==
    /\ outFail
    /\ lastCall = Call("write_outputs", "-", 2, 0)
    /\ pc = "done"
    /\ outcome = "SystemExit"
    /\ wcount = [o \in OutNames |-> IF o = "valve" THEN 1 ELSE 0]
    /\ hw["valve"] = 1
    /\ output_registry["fan"].curr_state = 1
    /\ hw["fan"] = 0
    /\ handled = [logged |-> 1, notified |-> 1]
    /\ calls.exit = 0

\* ---------------------------------------------------------------------
\* C17: with a notifier configured, once int_com_error_handler has handled
\* a communication error the run is over whether or not the notifier's send
\* succeeded: only the finally clause's write_outputs may still run, and
\* the exception that ends run() is the SystemExit carrying the
\* communication-failure message
C17_AsStated ==
    (eml_notification /\ handled.logged >= 1) =>
        /\ handled.notified = handled.logged
        /\ pc \in {"finally", "done"}
        /\ pc = "finally" => pending = "SystemExit"
        /\ pc = "done" => outcome = "SystemExit"

\* ---------------------------------------------------------------------
\* C18: in a run in which the stop signal is eventually delivered, every
\* routine and binding call returns and neither an emergency nor a
\* communication failure occurs, run() eventually returns with exit_routine
\* invoked exactly once; the delivery of the signal sets the flag and
\* nothing else: no registry entry, no binding, no position of the run
\* changes with it
C18_StopTerminates ==
    /\ <>(pc = "done" /\ outcome = "returned" /\ calls.exit = 1)
    /\ [][exit' # exit =>
             /\ exit' = TRUE
             /\ UNCHANGED <<input_registry, output_registry, step_registry,
                            hw, pc, pending, outcome, ops, cycle, phases,
                            calls, outAfter, wcount, lastCall>>]_vars

\* the signal arrived inside the second scan cycle; the cycle was
\* completed, exit_routine ran once and run() has returned
C18_Witness ==
    /\ pc = "done"
    /\ outcome = "returned"
    /\ calls = [control |-> 2, exit |-> 1, emergency |-> 0]
    /\ exit
    /\ stopCycle = 2
    /\ stopMid
    /\ outAfter = 1

\* ---------------------------------------------------------------------
\* C19: at the moment control_routine is invoked, in every cycle, each
\* output and step variable has its previous state equal to its current
\* state: an edge that the cycle before produced is not seen when the
\* control phase begins
C19_NoEdgeAtControlStart ==
    (pc = "control_routine" /\ lastCall.op = "read_inputs") =>
        \A x \in TrackedVars :
           /\ Entry(x).prev_state = Entry(x).curr_state
           /\ Entry(x).single_bit =>
                 /\ raising_edge(Entry(x)) = FALSE
                 /\ falling_edge(Entry(x)) = FALSE

\* the first cycle raised the valve and the step marker; the control phase
\* of the second cycle begins with both at 1 and no edge on them
C19_Witness ==
    /\ pc = "control_routine"
    /\ lastCall.op = "read_inputs"
    /\ cycle = 2
    /\ output_registry["valve"] = MemoryVariable(1, 1, TRUE)
    /\ step_registry["step0"] = MemoryVariable(1, 1, TRUE)

\* ---------------------------------------------------------------------
\* C20: when the stop signal has been delivered before run() is called,
\* run() starts no scan cycle: no update_registries, read_inputs or
\* control_routine; it invokes exit_routine once, then write_outputs once,
\* and returns (unless a write of that output phase fails)
C20_AsStated ==
    (stopCycle = 0 /\ ~stopMid) =>
        /\ cycle = 0
        /\ phases = <<>>
        /\ calls.control = 0 /\ calls.emergency = 0
        /\ pc \in {"__init__", "loop", "exit_routine", "flush", "done"}
        /\ pc \in {"__init__", "loop"} => calls.exit = 0
        /\ pc \in {"exit_routine", "flush"} => calls.exit = 1 /\ outAfter = 0
        /\ pc = "done" =>
              /\ calls.exit = 1
              /\ outAfter = 1
              /\ ~outFail => outcome = "returned"

============================================================================
